---- MODULE Spec2Model ----
(***************************************************************************)
(* The `subnet addValidator` and `subnet create` commands of the CLI.      *)
(*                                                                         *)
(* Time is counted in clock ticks since the process started.  The clock    *)
(* (time.Now) has tick resolution; date strings in the fixed layout and    *)
(* the validators' Unix end times have whole-second resolution.            *)
(* Durations are counted in ticks.  The lead times are scaled down to a    *)
(* few ticks; only their order (start lead > minimum lead) is used.        *)
(***************************************************************************)
EXTENDS Integers, Sequences, FiniteSets, TLC

----------------------------------------------------------------------------
\* Bounds of the model.
MaxClock == 3          \* the clock stops advancing after this many ticks
MaxStartSec == 2       \* largest second a start-time string may denote
MaxEndSec == 2         \* largest Unix end time a validator record holds
MaxValidators == 2     \* largest validator set the gateway returns
MaxCycles == 3         \* duration prompts answered in one run
TicksPerSecond == 2    \* clock ticks in one second of a date string
MaxCalls == 3          \* invocations of `subnet create`

\* Policy constants (pkg/constants).
MinStakeWeight == 1
MaxStakeWeight == 100
DefaultWeight == 20
StakingMinimumLeadTime == 2
StakingStartLeadTime == 4

ids_Empty == "ids.Empty"
NoError == "nil"

\* models.Network values and their names.
Fuji == "Fuji"
Mainnet == "Mainnet"
Undefined == "Undefined"
MainnetComingSoon == "Mainnet (coming soon)"

defaultDurationOption == "Until primary network validator expires"
custom == "Custom"

NodeIDs == {"A", "B"}

VARIABLES
    pc,               \* position of the running command
    err,              \* the error the command returned, NoError if none
    now,              \* time.Now()
    startTimeDefault, \* package variable, set when the process starts
    keyName,          \* --key
    nodeIDStr,        \* --nodeID
    pkg_weight,       \* --weight (the package-level variable)
    startTimeStr,     \* --start-time
    duration,         \* --staking-period, and the resolved duration
    persistedSidecar, \* the subnet's stored sidecar: network name -> subnet ID
    network, sc, subnetID, nodeID, weight, start,  \* locals of addValidator
    log,              \* prompts, remote queries and submissions, in order
    resolved,         \* the steps that completed without error, in order
    startClock,       \* the clock when the start time was resolved or rejected
    durationPath,     \* how the duration was resolved
    vs,               \* what GetCurrentValidators returned
    entered,          \* the durations entered in promptDuration
    answers,          \* the confirmations given in promptDuration
    submitted,        \* the AddValidator calls made
    genesisFiles,     \* subnet name -> stored genesis (0: none)
    sidecarFiles,     \* subnet name -> stored sidecar (0: none)
    last              \* the latest createGenesis invocation

addVars == <<pc, err, now, startTimeDefault, keyName, nodeIDStr, pkg_weight,
             startTimeStr, duration, persistedSidecar, network, sc, subnetID,
             nodeID, weight, start, log, resolved, startClock, durationPath,
             vs, entered, answers, submitted>>
createVars == <<genesisFiles, sidecarFiles, last>>
vars == <<addVars, createVars>>

flags == <<keyName, nodeIDStr, pkg_weight, startTimeStr>>
clock == <<now, startTimeDefault>>
promptState == <<entered, answers>>

----------------------------------------------------------------------------
\* Helpers

Range(s) == {s[i] : i \in 1..Len(s)}

SeqsUpTo(S, n) == UNION {[1..k -> S] : k \in 0..n}

\* A Go map read: the zero value when the key is absent.
MapGet(m, k, zero) == IF k \in DOMAIN m THEN m[k] ELSE zero

\* models.NetworkFromString: any string that is not a network's name is Undefined.
NetworkFromString(s) ==
    CASE s = Fuji -> Fuji
      [] s = Mainnet -> Mainnet
      [] OTHER -> Undefined

\* Network.String()
NetworkString(n) ==
    CASE n = Fuji -> "Fuji"
      [] n = Mainnet -> "Mainnet"
      [] OTHER -> "Unknown Network"

\* ids.NodeIDFromString
NodeIDFromString(s) ==
    CASE s = "NodeID-A" -> [id |-> "A", err |-> NoError]
      [] s = "NodeID-B" -> [id |-> "B", err |-> NoError]
      [] OTHER -> [id |-> "", err |-> "ParseError"]

\* time.Parse(constants.TimeParseLayout, s): a date string is the sequence of
\* its fields; a well-formed one holds exactly the second it denotes.
ParseTime(s) ==
    IF Len(s) = 1
    THEN [t |-> s[1] * TicksPerSecond, err |-> NoError]
    ELSE [t |-> 0, err |-> "ParseError"]

\* time.Unix(sec, 0)
Unix(sec) == sec * TicksPerSecond

----------------------------------------------------------------------------
\* External collaborators: what a prompt, the gateway or the deployer may answer.

PromptError == "PromptError"

\* Prompt.CaptureWeight validates the entry against the weight policy.
CaptureWeight == {w \in {MaxStakeWeight, MaxStakeWeight + 1} :
                    MinStakeWeight <= w /\ w <= MaxStakeWeight}

\* Prompt.CaptureDate validates the entry against the minimum lead time.
CaptureDate(clk) == {t \in {Unix(sec) : sec \in 0..MaxStartSec} :
                       t >= clk + StakingMinimumLeadTime}

\* Prompt.CaptureDuration
CaptureDuration == {1, 2}

\* A validator record of platformvm.GetCurrentValidators.
ValidatorRecords == [NodeID : NodeIDs, EndTime : 0..MaxEndSec]

\* platformCli.GetCurrentValidators: a transport error or a validator set.
GatewayResults ==
    {[err |-> "TransportTimeout", vs |-> <<>>]}
    \cup {[err |-> NoError, vs |-> v] : v \in SeqsUpTo(ValidatorRecords, MaxValidators)}

----------------------------------------------------------------------------
\* addValidator

Steps == <<"key", "network", "subnetID", "nodeID", "weight", "start", "duration">>

\* return err
Fail(e) ==
    /\ pc' = "done"
    /\ err' = e

Done(step) == resolved' = Append(resolved, step)

\* The key names captureKeyName offers.
KeyChoices == {"k1"}

captureKeyName ==
    /\ pc = "key"
    /\ IF keyName = ""
       THEN \/ /\ Fail("ReadDirError")
               /\ UNCHANGED <<keyName, log, resolved>>
            \/ /\ log' = Append(log, "CaptureList:key")
               /\ \/ /\ Fail(PromptError)
                     /\ UNCHANGED <<keyName, resolved>>
                  \/ /\ keyName' \in KeyChoices
                     /\ pc' = "network"
                     /\ Done("key")
                     /\ UNCHANGED err
       ELSE /\ pc' = "network"
            /\ Done("key")
            /\ UNCHANGED <<keyName, log, err>>
    /\ UNCHANGED <<clock, nodeIDStr, pkg_weight, startTimeStr, duration,
                   persistedSidecar, network, sc, subnetID, nodeID, weight,
                   start, startClock, durationPath, vs, promptState,
                   submitted, createVars>>

NetworkOptions == {Fuji, MainnetComingSoon}

chooseNetwork ==
    /\ pc = "network"
    /\ log' = Append(log, "CaptureList:network")
    /\ \/ /\ Fail(PromptError)
          /\ UNCHANGED <<network, resolved>>
       \/ \E networkStr \in NetworkOptions :
             /\ network' = NetworkFromString(networkStr)
             /\ pc' = "chains"
             /\ Done("network")
             /\ UNCHANGED err
    /\ UNCHANGED <<clock, flags, duration, persistedSidecar, sc, subnetID,
                   nodeID, weight, start, startClock, durationPath, vs,
                   promptState, submitted, createVars>>

\* validateSubnetNameAndGetChains and app.LoadSidecar
loadSidecar ==
    /\ pc = "chains"
    /\ \/ /\ Fail("InvalidSubnetName")
          /\ UNCHANGED <<sc, log>>
       \/ /\ log' = Append(log, "LoadSidecar")
          /\ \/ /\ Fail("LoadSidecarError")
                /\ UNCHANGED sc
             \/ /\ sc' = persistedSidecar
                /\ pc' = "subnetID"
                /\ UNCHANGED err
    /\ UNCHANGED <<clock, flags, duration, persistedSidecar, network, subnetID,
                   nodeID, weight, start, resolved, startClock, durationPath,
                   vs, promptState, submitted, createVars>>

\* The check of the subnet ID left out.
NoSubnetID_Unchecked(id) == FALSE

\* subnetID == ids.Empty
NoSubnetID(id) == id = ids_Empty

checkSubnetID ==
    /\ pc = "subnetID"
    /\ subnetID' = MapGet(sc, NetworkString(network), ids_Empty)
    /\ IF NoSubnetID(subnetID')
       THEN /\ Fail("errNoSubnetID")
            /\ UNCHANGED resolved
       ELSE /\ pc' = "nodeID"
            /\ Done("subnetID")
            /\ UNCHANGED err
    /\ UNCHANGED <<clock, flags, duration, persistedSidecar, network, sc,
                   nodeID, weight, start, log, startClock, durationPath, vs,
                   promptState, submitted, createVars>>

resolveNodeID ==
    /\ pc = "nodeID"
    /\ IF nodeIDStr = ""
       THEN /\ log' = Append(log, "CaptureNodeID")
            /\ \/ /\ Fail(PromptError)
                  /\ UNCHANGED <<nodeID, resolved>>
               \/ /\ nodeID' \in NodeIDs
                  /\ pc' = "weight"
                  /\ Done("nodeID")
                  /\ UNCHANGED err
       ELSE /\ LET r == NodeIDFromString(nodeIDStr)
               IN IF r.err # NoError
                  THEN /\ Fail(r.err)
                       /\ UNCHANGED <<nodeID, resolved>>
                  ELSE /\ nodeID' = r.id
                       /\ pc' = "weight"
                       /\ Done("nodeID")
                       /\ UNCHANGED err
            /\ UNCHANGED log
    /\ UNCHANGED <<clock, flags, duration, persistedSidecar, network, sc,
                   subnetID, weight, start, startClock, durationPath, vs,
                   promptState, submitted, createVars>>

\* weight < constants.MinStakeWeight || weight > constants.MaxStakeWeight
IllegalWeight(w) == w < MinStakeWeight \/ w > MaxStakeWeight

\* The weight step reads the local variable weight that addValidator declares
\* (zero until assigned), not the package variable the --weight flag sets.
resolveWeight ==
    /\ pc = "weight"
    /\ IF weight = 0
       THEN \* promptWeight
            \/ /\ log' = Append(log, "CaptureList:weight")
               /\ \/ /\ Fail(PromptError)
                     /\ UNCHANGED <<weight, resolved>>
                  \/ /\ weight' = DefaultWeight
                     /\ pc' = "start"
                     /\ Done("weight")
                     /\ UNCHANGED err
            \/ /\ log' = log \o <<"CaptureList:weight", "CaptureWeight">>
               /\ \/ /\ Fail(PromptError)
                     /\ UNCHANGED <<weight, resolved>>
                  \/ /\ weight' \in CaptureWeight
                     /\ pc' = "start"
                     /\ Done("weight")
                     /\ UNCHANGED err
       ELSE /\ IF IllegalWeight(weight)
               THEN /\ Fail("IllegalWeight")
                    /\ UNCHANGED resolved
               ELSE /\ pc' = "start"
                    /\ Done("weight")
                    /\ UNCHANGED err
            /\ UNCHANGED <<weight, log>>
    /\ UNCHANGED <<clock, flags, duration, persistedSidecar, network, sc,
                   subnetID, nodeID, start, startClock, durationPath, vs,
                   promptState, submitted, createVars>>

\* The boundary rejected as well.
TooSoon_Inclusive(t, clk) == t <= clk + StakingMinimumLeadTime

\* start.Before(time.Now().Add(constants.StakingMinimumLeadTime))
TooSoon(t, clk) == t < clk + StakingMinimumLeadTime

\* getTimeParameters, the start time
resolveStart ==
    /\ pc = "start"
    /\ startClock' = now
    /\ IF startTimeStr = <<>>
       THEN \/ /\ log' = Append(log, "CaptureList:start")
               /\ \/ /\ Fail(PromptError)
                     /\ UNCHANGED <<start, resolved>>
                  \/ /\ start' = startTimeDefault
                     /\ pc' = "duration"
                     /\ Done("start")
                     /\ UNCHANGED err
            \/ \* promptStart
               /\ log' = log \o <<"CaptureList:start", "CaptureDate">>
               /\ \/ /\ Fail(PromptError)
                     /\ UNCHANGED <<start, resolved>>
                  \/ /\ start' \in CaptureDate(now)
                     /\ pc' = "duration"
                     /\ Done("start")
                     /\ UNCHANGED err
       ELSE /\ LET r == ParseTime(startTimeStr)
               IN IF r.err # NoError
                  THEN /\ Fail(r.err)
                       /\ UNCHANGED <<start, resolved>>
                  ELSE IF TooSoon(r.t, now)
                  THEN /\ Fail("TooSoon")
                       /\ UNCHANGED <<start, resolved>>
                  ELSE /\ start' = r.t
                       /\ pc' = "duration"
                       /\ Done("start")
                       /\ UNCHANGED err
            /\ UNCHANGED log
    /\ UNCHANGED <<clock, flags, duration, persistedSidecar, network, sc,
                   subnetID, nodeID, weight, durationPath, vs, promptState,
                   submitted, createVars>>

\* The scan of getMaxValidationTime: the first record of the node, if any.
RECURSIVE FindValidator(_, _, _)
FindValidator(set, id, i) ==
    IF i > Len(set) THEN 0
    ELSE IF set[i].NodeID = id THEN i
    ELSE FindValidator(set, id, i + 1)

\* The subtraction the wrong way round.
getMaxValidationTime_Reversed(res, id, startTime) ==
    IF res.err # NoError
    THEN [d |-> 0, err |-> res.err]
    ELSE LET i == FindValidator(res.vs, id, 1)
         IN IF i # 0
            THEN [d |-> startTime - Unix(res.vs[i].EndTime), err |-> NoError]
            ELSE [d |-> 0, err |-> "NodeNotFound"]

\* getMaxValidationTime, given what GetCurrentValidators answered
getMaxValidationTime(res, id, startTime) ==
    IF res.err # NoError
    THEN [d |-> 0, err |-> res.err]
    ELSE LET i == FindValidator(res.vs, id, 1)
         IN IF i # 0
            THEN [d |-> Unix(res.vs[i].EndTime) - startTime, err |-> NoError]
            ELSE [d |-> 0, err |-> "NodeNotFound"]

\* getTimeParameters, the duration
resolveDuration ==
    /\ pc = "duration"
    /\ IF duration = 0
       THEN \/ /\ log' = Append(log, "CaptureList:duration")
               /\ Fail(PromptError)
               /\ UNCHANGED <<duration, resolved, durationPath, vs>>
            \/ \E res \in GatewayResults :
                  LET r == getMaxValidationTime(res, nodeID, start)
                  IN /\ log' = log \o <<"CaptureList:duration", "GetCurrentValidators">>
                     /\ vs' = res
                     /\ durationPath' = defaultDurationOption
                     /\ IF r.err # NoError
                        THEN /\ Fail(r.err)
                             /\ UNCHANGED <<duration, resolved>>
                        ELSE /\ duration' = r.d
                             /\ pc' = "submit"
                             /\ Done("duration")
                             /\ UNCHANGED err
            \/ /\ log' = Append(log, "CaptureList:duration")
               /\ durationPath' = custom
               /\ pc' = "promptDuration"
               /\ UNCHANGED <<duration, resolved, vs, err>>
       ELSE /\ durationPath' = "flag"
            /\ pc' = "submit"
            /\ Done("duration")
            /\ UNCHANGED <<duration, log, vs, err>>
    /\ UNCHANGED <<clock, flags, persistedSidecar, network, sc, subnetID,
                   nodeID, weight, start, startClock, promptState, submitted,
                   createVars>>

\* The answer to the confirmation ignored.
Confirmed_Ignored(yes) == TRUE

\* if yes { return d, nil }
Confirmed(yes) == yes

\* promptDuration, one pass of its loop
promptDuration ==
    /\ pc = "promptDuration"
    /\ Len(entered) < MaxCycles
    /\ \/ /\ log' = Append(log, "CaptureDuration")
          /\ Fail(PromptError)
          /\ UNCHANGED <<duration, resolved, promptState>>
       \/ \E d \in CaptureDuration :
             /\ entered' = Append(entered, d)
             /\ log' = log \o <<"CaptureDuration", "CaptureYesNo">>
             /\ \/ /\ Fail(PromptError)
                   /\ UNCHANGED <<duration, resolved, answers>>
                \/ \E yes \in BOOLEAN :
                      /\ answers' = Append(answers, yes)
                      /\ IF Confirmed(yes)
                         THEN /\ duration' = d
                              /\ pc' = "submit"
                              /\ Done("duration")
                         ELSE UNCHANGED <<duration, pc, resolved>>
                      /\ UNCHANGED err
    /\ UNCHANGED <<clock, flags, persistedSidecar, network, sc, subnetID,
                   nodeID, weight, start, startClock, durationPath, vs,
                   submitted, createVars>>

\* A failed submission tried again.
AfterSubmit_Retry(e) == IF e = NoError THEN "done" ELSE "submit"

\* return deployer.AddValidator(...): the command ends whatever the answer.
AfterSubmit(e) == "done"

submit ==
    /\ pc = "submit"
    /\ log' = Append(log, "AddValidator")
    /\ submitted' = Append(submitted, [subnetID |-> subnetID, nodeID |-> nodeID,
                                       weight |-> weight, start |-> start,
                                       duration |-> duration])
    /\ \E e \in {NoError, "SubmissionError"} :
          /\ err' = e
          /\ pc' = AfterSubmit(e)
    /\ UNCHANGED <<clock, flags, duration, persistedSidecar, network, sc,
                   subnetID, nodeID, weight, start, resolved, startClock,
                   durationPath, vs, promptState, createVars>>

\* Time passes while the command runs or waits at a prompt.  The clock is
\* last read when the start time is resolved; its advance after that is not
\* followed.
Tick ==
    /\ pc \in {"key", "network", "chains", "subnetID", "nodeID", "weight", "start"}
    /\ now < MaxClock
    /\ now' = now + 1
    /\ UNCHANGED <<pc, err, startTimeDefault, flags, duration,
                   persistedSidecar, network, sc, subnetID, nodeID, weight,
                   start, log, resolved, startClock, durationPath, vs,
                   promptState, submitted, createVars>>

----------------------------------------------------------------------------
\* createGenesis

Letters == {"a", "b"}
Numbers == {"1"}

\* Subnet names, as the sequences of their characters.
SubnetNames == {<<"a">>, <<"b", "1">>, <<"a", " ">>, <<"a", "-">>}

\* checkInvalidSubnetNames
checkInvalidSubnetNames(name) ==
    IF \E i \in 1..Len(name) :
          ~(name[i] \in Letters \/ name[i] \in Numbers \/ name[i] = " ")
    THEN "errIllegalNameCharacter"
    ELSE NoError

\* moreThanOneVMSelected
moreThanOneVMSelected(useSubnetEvm, useCustom) == useSubnetEvm /\ useCustom

subnetEvm == "SubnetEVM"
customVM == "Custom"

\* getVMFromFlag
getVMFromFlag(useSubnetEvm, useCustom) ==
    IF useSubnetEvm THEN subnetEvm
    ELSE IF useCustom THEN customVM
    ELSE ""

\* app.GenesisExists
GenesisExists(name) == genesisFiles[name] # 0

\* The force flag read the wrong way round.
ConfigurationExists_Inverted(exists, forceCreate) == exists /\ forceCreate

\* app.GenesisExists(subnetName) && !forceCreate
ConfigurationExists(exists, forceCreate) == exists /\ ~forceCreate

\* One invocation of createGenesis, from its flags to its return.  A file
\* holds the number of the invocation that wrote it.
createGenesis ==
    /\ last.n < MaxCalls
    /\ \E subnetName \in SubnetNames, forceCreate, useSubnetEvm, useCustom \in BOOLEAN,
          promptErr, configErr, genesisErr, sidecarErr \in BOOLEAN,
          subnetTypeStr \in {subnetEvm, customVM} :
          LET n == last.n + 1
              exists == GenesisExists(subnetName)
              nameErr == checkInvalidSubnetNames(subnetName)
              flagVM == getVMFromFlag(useSubnetEvm, useCustom)
              subnetType == IF flagVM = "" THEN subnetTypeStr ELSE flagVM
              call == [n |-> n, subnetName |-> subnetName,
                       forceCreate |-> forceCreate, existed |-> exists,
                       prompted |-> FALSE, err |-> NoError,
                       wroteGenesis |-> FALSE, wroteSidecar |-> FALSE]
              Return(c) == /\ last' = c
                           /\ UNCHANGED <<genesisFiles, sidecarFiles>>
          IN IF ConfigurationExists(exists, forceCreate)
             THEN Return([call EXCEPT !.err = "ConfigurationExists"])
             ELSE IF nameErr # NoError
             THEN Return([call EXCEPT !.err = nameErr])
             ELSE IF moreThanOneVMSelected(useSubnetEvm, useCustom)
             THEN Return([call EXCEPT !.err = "TooManyVMs"])
             ELSE IF flagVM = "" /\ promptErr
             THEN Return([call EXCEPT !.err = PromptError, !.prompted = TRUE])
             ELSE IF subnetType \notin {subnetEvm, customVM}
             THEN Return([call EXCEPT !.err = "NotImplemented",
                                      !.prompted = (flagVM = "")])
             ELSE IF configErr
             THEN Return([call EXCEPT !.err = "CreateConfigError",
                                      !.prompted = (flagVM = "")])
             ELSE IF genesisErr
             THEN Return([call EXCEPT !.err = "WriteGenesisError",
                                      !.prompted = (flagVM = "")])
             ELSE /\ genesisFiles' = [genesisFiles EXCEPT ![subnetName] = n]
                  /\ IF sidecarErr
                     THEN /\ UNCHANGED sidecarFiles
                          /\ last' = [call EXCEPT !.err = "CreateSidecarError",
                                                  !.prompted = (flagVM = ""),
                                                  !.wroteGenesis = TRUE]
                     ELSE /\ sidecarFiles' = [sidecarFiles EXCEPT ![subnetName] = n]
                          /\ last' = [call EXCEPT !.prompted = (flagVM = ""),
                                                  !.wroteGenesis = TRUE,
                                                  !.wroteSidecar = TRUE]
    /\ UNCHANGED addVars

----------------------------------------------------------------------------
\* The flags a run may be started with.
KeyFlags == {"", "k1"}
NodeIDFlags == {"", "NodeID-A", "garbage"}
WeightFlags == {0, MinStakeWeight, MaxStakeWeight + 1}
StartTimeFlags == {<<>>, <<0, 0>>} \cup {<<sec>> : sec \in 0..MaxStartSec}
DurationFlags == {0 - 1, 0, 1}

\* The sidecars a deployed or undeployed subnet may have stored.
Sidecars ==
    {<<>>, [n \in {"Fuji"} |-> ids_Empty], [n \in {"Fuji"} |-> "subnet-1"],
     [n \in {"Mainnet"} |-> "subnet-1"]}

\* No `subnet create` has run.
NoCreate ==
    /\ genesisFiles = [name \in SubnetNames |-> 0]
    /\ sidecarFiles = [name \in SubnetNames |-> 0]
    /\ last = [n |-> 0, subnetName |-> <<"a">>, forceCreate |-> FALSE,
               existed |-> FALSE, prompted |-> FALSE, err |-> NoError,
               wroteGenesis |-> FALSE, wroteSidecar |-> FALSE]

\* The process starts: package variables are initialised and the flags parsed.
Init ==
    /\ pc = "key"
    /\ err = NoError
    /\ now = 0
    /\ startTimeDefault = now + StakingStartLeadTime
    /\ keyName \in KeyFlags
    /\ nodeIDStr \in NodeIDFlags
    /\ pkg_weight \in WeightFlags
    /\ startTimeStr \in StartTimeFlags
    /\ duration \in DurationFlags
    /\ persistedSidecar \in Sidecars
    /\ network = Undefined
    /\ sc = <<>>
    /\ subnetID = ids_Empty
    /\ nodeID = ""
    /\ weight = 0
    /\ start = 0
    /\ log = <<>>
    /\ resolved = <<>>
    /\ startClock = 0
    /\ durationPath = ""
    /\ vs = [err |-> NoError, vs |-> <<>>]
    /\ entered = <<>>
    /\ answers = <<>>
    /\ submitted = <<>>
    /\ NoCreate

Next ==
    \/ captureKeyName
    \/ chooseNetwork
    \/ loadSidecar
    \/ checkSubnetID
    \/ resolveNodeID
    \/ resolveWeight
    \/ resolveStart
    \/ resolveDuration
    \/ promptDuration
    \/ submit
    \/ Tick

Spec == Init /\ [][Next]_vars

\* `subnet create` invoked again and again on one configuration directory.
InitCreate ==
    /\ pc = "done"
    /\ err = NoError
    /\ now = 0
    /\ startTimeDefault = now + StakingStartLeadTime
    /\ keyName = ""
    /\ nodeIDStr = ""
    /\ pkg_weight = 0
    /\ startTimeStr = <<>>
    /\ duration = 0
    /\ persistedSidecar = <<>>
    /\ network = Undefined
    /\ sc = <<>>
    /\ subnetID = ids_Empty
    /\ nodeID = ""
    /\ weight = 0
    /\ start = 0
    /\ log = <<>>
    /\ resolved = <<>>
    /\ startClock = 0
    /\ durationPath = ""
    /\ vs = [err |-> NoError, vs |-> <<>>]
    /\ entered = <<>>
    /\ answers = <<>>
    /\ submitted = <<>>
    /\ NoCreate

NextCreate == createGenesis

SpecCreate == InitCreate /\ [][NextCreate]_vars

----------------------------------------------------------------------------
\* Properties of addValidator (under Spec)

Count(seq, x) == Cardinality({i \in 1..Len(seq) : seq[i] = x})

Resolved(step) == step \in Range(resolved)

IsPrefix(s, t) == Len(s) <= Len(t) /\ \A i \in 1..Len(s) : s[i] = t[i]

\* C1: whenever the start time has been resolved, by the flag, by "Start in
\* five minutes" or by the custom prompt, it lies at least
\* StakingMinimumLeadTime after the clock at the moment it was resolved.
C1_StartKeepsMinimumLead ==
    Resolved("start") => start >= startClock + StakingMinimumLeadTime

\* C2: whenever the duration has been resolved, by the flag, from the
\* validator's end time or by the confirmed prompt, it is greater than zero.
C2_DurationPositive ==
    Resolved("duration") => duration > 0

\* C3: a non-zero --weight outside the legal range fails the command at the
\* weight step with the illegal-weight error and nothing is submitted; a
\* non-zero --weight inside the range is used as is: no weight prompt is
\* shown and AddValidator receives exactly that weight.
C3_WeightFlagHonoured ==
    pkg_weight # 0 =>
        IF IllegalWeight(pkg_weight)
        THEN /\ ~Resolved("weight")
             /\ submitted = <<>>
             /\ (Resolved("nodeID") /\ pc = "done") => err = "IllegalWeight"
        ELSE /\ Count(log, "CaptureList:weight") = 0
             /\ \A i \in 1..Len(submitted) : submitted[i].weight = pkg_weight

\* C4, in every state: the steps complete in the order key, network, subnet
\* ID, node ID, weight, start, duration; AddValidator is called at most once,
\* as the last thing the command does and only after all of them; an error
\* ends the command.
C4_Ordered ==
    /\ IsPrefix(resolved, Steps)
    /\ Len(submitted) <= 1
    /\ Count(log, "AddValidator") = Len(submitted)
    /\ submitted # <<>> => resolved = Steps /\ log[Len(log)] = "AddValidator"
    /\ err # NoError => pc = "done"

\* C4, in every step: an error ends the command with that error, a command
\* that has ended does nothing more, and the stored sidecar is not written.
C4_Step ==
    /\ persistedSidecar' = persistedSidecar
    /\ (err = NoError /\ err' # NoError) => pc' = "done"
    /\ pc = "done" => UNCHANGED <<err, log, resolved, submitted>>
    /\ err # NoError => UNCHANGED <<err, log, resolved, submitted>>

\* C4: AddValidator is called at most once and only after every input has
\* been resolved without error, in order; the first error ends the run, with
\* no later step and no retry, and the sidecar is never written.
C4_FailFastSubmitOnce == [](C4_Ordered) /\ [][C4_Step]_vars

C4_Witness ==
    /\ pc = "done"
    /\ Len(submitted) = 1
    /\ err = "SubmissionError"

\* The sidecar was loaded and the subnet ID looked up in it.
SubnetIDChecked ==
    /\ Count(log, "LoadSidecar") = 1
    /\ pc # "subnetID"
    /\ ~(pc = "done" /\ err = "LoadSidecarError")

\* The loaded sidecar holds no subnet ID under the selected network's name.
HoldsNoSubnetID ==
    \A k \in DOMAIN persistedSidecar :
        k = NetworkString(network) => persistedSidecar[k] = ids_Empty

\* C5: AddValidator never receives the empty subnet ID; when the loaded
\* sidecar holds no subnet ID for the selected network the command fails
\* with errNoSubnetID right after the sidecar is loaded, before any node ID,
\* weight or time prompt.
C5_NoEmptySubnetID ==
    /\ \A i \in 1..Len(submitted) : submitted[i].subnetID # ids_Empty
    /\ (SubnetIDChecked /\ HoldsNoSubnetID) =>
           /\ pc = "done"
           /\ err = "errNoSubnetID"
           /\ log[Len(log)] = "LoadSidecar"
           /\ submitted = <<>>

C5_Witness ==
    /\ SubnetIDChecked
    /\ network = Undefined
    /\ "Mainnet" \in DOMAIN persistedSidecar
    /\ err = "errNoSubnetID"

C7_PromptDuration ==
    durationPath = custom =>
        LET k == Len(answers)
        IN IF Resolved("duration")
           THEN /\ k >= 1
                /\ Len(entered) = k
                /\ Count(log, "CaptureDuration") = k
                /\ Count(log, "CaptureYesNo") = k
                /\ answers[k]
                /\ \A i \in 1..(k - 1) : ~answers[i]
                /\ duration = entered[k]
           ELSE /\ \A i \in 1..k : ~answers[i]
                /\ duration = 0
                /\ submitted = <<>>

C7_Witness ==
    /\ durationPath = custom
    /\ Resolved("duration")
    /\ Len(answers) = 3
    /\ entered[3] # entered[2]
    /\ entered[3] # entered[1]

\* The start-time step has run, to success or to an error.
StartStepDone == Resolved("weight") /\ pc # "start"

\* C8: a well-formed --start-time denoting t fails with the too-soon error
\* exactly when t is before the clock plus StakingMinimumLeadTime; otherwise
\* the start time is t and no start-time prompt was shown.
C8_StartTimeFlag ==
    (Len(startTimeStr) = 1 /\ StartStepDone) =>
        LET t == startTimeStr[1] * TicksPerSecond
        IN /\ (err = "TooSoon") <=> (t < startClock + StakingMinimumLeadTime)
           /\ err # "TooSoon" =>
                  /\ Resolved("start")
                  /\ start = t
                  /\ Count(log, "CaptureList:start") = 0
                  /\ Count(log, "CaptureDate") = 0

C8_Witness ==
    /\ Len(startTimeStr) = 1
    /\ Resolved("start")
    /\ startClock > 0
    /\ start = startClock + StakingMinimumLeadTime

----------------------------------------------------------------------------
\* Properties of createGenesis (under SpecCreate)

\* C9: an invocation that finds the genesis of its subnet name present and
\* was not given -f fails with the configuration-already-exists error
\* without prompting and leaves every stored file as it was; a stored
\* genesis or sidecar of an existing configuration changes only in an
\* invocation given -f.
C9_Step ==
    last'.n # last.n =>
        /\ (last'.existed /\ ~last'.forceCreate) =>
               /\ last'.err = "ConfigurationExists"
               /\ ~last'.prompted
               /\ genesisFiles' = genesisFiles
               /\ sidecarFiles' = sidecarFiles
        /\ \A name \in SubnetNames :
               (/\ genesisFiles[name] # 0
                /\ \/ genesisFiles'[name] # genesisFiles[name]
                   \/ sidecarFiles'[name] # sidecarFiles[name])
               => last'.forceCreate /\ last'.subnetName = name
        /\ last'.existed = (genesisFiles[last'.subnetName] # 0)

\* C9: every step of `subnet create` refuses, without -f, to touch an
\* existing configuration.
C9_NoOverwriteWithoutForce == [][C9_Step]_vars

C9_Witness ==
    /\ last.existed
    /\ ~last.forceCreate
    /\ last.err = "ConfigurationExists"
    /\ last.n = 3

\* C10: after every invocation, the genesis file and the sidecar of that
\* invocation are either both written or both not written.
C10_GenesisAndSidecarTogether ==
    last.n > 0 => (last.wroteGenesis <=> last.wroteSidecar)

====
